---- MODULE Spec2Model ----
(***************************************************************************)
(* Model of alwrity_facebook.py: the Streamlit form handler main(), the    *)
(* prompt builder and call wrapper generate_facebook_post(), and the       *)
(* tenacity-decorated generate_text_with_exception_handling().             *)
(*                                                                         *)
(* Strings are sequences of tokens: a free-text field is a sequence of     *)
(* one-character strings, a literal piece of the prompt template or a      *)
(* selectbox option is one token holding the literal text.  Python's None  *)
(* is the record None, a returned string s is Some(s).                     *)
(***************************************************************************)
EXTENDS Integers, Sequences, FiniteSets, TLC

VARIABLES
    pc,             \* position of the submission in main
    request,        \* the six form values read by main (lines 130-138)
    prompt,         \* the prompt handed to generate_text_with_exception_handling
    hasKey,         \* environment: GEMINI_API_KEY is set
    failFirst,      \* environment: the remote call raises on its first failFirst invocations
    attempt_number, \* tenacity's retry_state.attempt_number
    calls,          \* invocations of the body of generate_text_with_exception_handling
    lastCall,       \* what the most recent remote call did: "none", "ok", "raised"
    progress,       \* the values passed to progress_callback, in order
    shown,          \* the elements written to the page after the click, in order
    progress_bar,   \* the progress widget: "empty" or "bar"
    generated_post  \* main's local generated_post

vars == <<pc, request, prompt, hasKey, failFirst, attempt_number, calls,
          lastCall, progress, shown, progress_bar, generated_post>>

----------------------------------------------------------------------------
(* Bounds *)

\* longest free-text value typed into the form in the submission model
MaxFormLen == 1
\* longest business_type / target_audience in the prompt-builder model
MaxLen == 2
\* longest include / avoid in the prompt-builder model
MaxOptLen == 1
\* the environment makes the remote call raise on its first 0..MaxFailures invocations
MaxFailures == 7
\* cap on tenacity's attempt counter
MaxAttemptNumber == 8

(* Program constants *)

\* stop_after_attempt(6)
StopAfterAttempt == 6

----------------------------------------------------------------------------
(* Values *)

None == [some |-> FALSE, text |-> <<>>]
Some(t) == [some |-> TRUE, text |-> t]

\* characters of the submission model and of the prompt-builder model
FormChars == {"a"}
Chars == {"a", "{"}

TextsOver(A, n) == UNION {[1..m -> A] : m \in 0..n}

\* st.selectbox options of post_goal and post_tone
PostGoals == {<<"Promote a new product">>, <<"Share valuable content">>,
              <<"Increase engagement">>, <<"Other">>}
PostTones == {<<"Informative">>, <<"Humorous">>, <<"Inspirational">>,
              <<"Upbeat">>, <<"Casual">>}

\* the form before the user types anything: empty text inputs, index=2, index=3
DefaultForm ==
    [business_type |-> <<>>, target_audience |-> <<>>,
     post_goal |-> <<"Increase engagement">>, post_tone |-> <<"Upbeat">>,
     include |-> <<>>, avoid |-> <<>>]

Requests(A, reqLen, optLen) ==
    [business_type : TextsOver(A, reqLen), target_audience : TextsOver(A, reqLen),
     post_goal : PostGoals, post_tone : PostTones,
     include : TextsOver(A, optLen), avoid : TextsOver(A, optLen)]

\* texts convo.last.text can hold when the remote call succeeds
ResponseTexts == {<<>>, <<"t">>}

\* where inside the try block the remote call raises:
\* genai.configure / GenerativeModel, start_chat / send_message, convo.last.text
Stages == {"configure", "send", "text"}

IsSubstring(s, t) ==
    \E i \in 0..(Len(t) - Len(s)) : SubSeq(t, i + 1, i + Len(s)) = s

Range(s) == {s[i] : i \in 1..Len(s)}

NonDecreasing(s) == \A i \in 1..(Len(s) - 1) : s[i] <= s[i + 1]

----------------------------------------------------------------------------
(* generate_facebook_post, lines 26-44: the f-string *)

PromptTemplate(business_type, target_audience, post_goal, post_tone, include, avoid) ==
    <<"\n    My business type is ">> \o business_type \o
    <<".\n\n    Please help me write a highly detailed Facebook post, at least 1000-2000 words, that will engage my target audience, ">>
    \o target_audience \o
    <<".\n\n    Here are some additional details to consider:\n\n    * **Post Goal:** ">>
    \o post_goal \o
    <<"\n    * **Post Tone:** ">> \o post_tone \o
    <<"\n    * **Include:** ">> \o include \o
    <<"\n    * **Avoid:** ">> \o avoid \o
    <<"\n\n    **Example Post Structure:**\n\n",
      "    1. **Attention-Grabbing Opening:** Start with a question or a bold statement to capture attention.\n",
      "    2. **Engaging Content:** Describe the main message or offer, highlighting key benefits or features.\n",
      "    3. **Call-to-Action (CTA):** Encourage & provide compelling reasons for the audience to take a specific action (e.g., visit a link, comment, share).\n",
      "    4. **Hashtags:** Include relevant hashtags to increase post visibility.\n    ">>

\* the Avoid line of the template filled with include
BuildPromptAvoidSlip(r) ==
    PromptTemplate(r.business_type, r.target_audience, r.post_goal, r.post_tone,
                   r.include, r.include)

BuildPrompt(r) ==
    PromptTemplate(r.business_type, r.target_audience, r.post_goal, r.post_tone,
                   r.include, r.avoid)

----------------------------------------------------------------------------
(* main, line 144: "if not business_type or not target_audience" rejects *)

\* "and" in place of "or"
InputsValidBothEmpty(r) == ~(r.business_type = <<>> /\ r.target_audience = <<>>)

InputsValid(r) == ~(r.business_type = <<>> \/ r.target_audience = <<>>)

(* main, line 155: "if generated_post" is Python truthiness: None and the   *)
(* empty string are both false                                              *)

\* "is not None" in place of truthiness
TruthyIsNotNone(v) == v.some

Truthy(v) == v.some /\ v.text # <<>>

(* main, lines 155-160: what the page shows for generated_post *)

ShownAfter(v) ==
    IF Truthy(v)
    THEN <<"verify_note", "generated_text", "spacer">>
    ELSE <<"failure_message">>

(* The genai calls of the try block as seen by invocation i of the wrapped  *)
(* function.  They raise on the first failFirst invocations and answer a    *)
(* text afterwards.  Line 68 hands os.getenv('GEMINI_API_KEY') to           *)
(* genai.configure unchecked: with the variable unset the program passes    *)
(* None and nothing in it raises, so whether a later genai call raises or   *)
(* answers is left to the library (its other credential sources): both      *)
(* outcomes are possible.                                                   *)

RemoteCall(i) ==
    LET raises == {[ok |-> FALSE, stage |-> s, text |-> <<>>] : s \in Stages}
        answers == {[ok |-> TRUE, stage |-> "none", text |-> t] : t \in ResponseTexts}
    IN  IF i <= failFirst THEN raises
        ELSE IF hasKey THEN answers
        ELSE raises \cup answers

\* progress_callback values reported inside the try block before the raise
StageProgress(stage) ==
    CASE stage = "configure" -> <<>>
      [] stage = "send" -> <<70>>
      [] stage = "text" -> <<70, 90>>

(* generate_text_with_exception_handling, lines 66-93: the decorated body.  *)
(* Any Exception raised in the try block is shown with st.exception and     *)
(* None is returned; the body itself never raises.                          *)

\* the except branch returning its message instead of None
BodyReturnsMessage(o) ==
    IF o.ok
    THEN [raised |-> FALSE, value |-> Some(o.text),
          progress |-> <<50, 70, 90>>, shown |-> <<>>]
    ELSE [raised |-> FALSE, value |-> Some(<<"An unexpected error occurred: ">>),
          progress |-> <<50>> \o StageProgress(o.stage), shown |-> <<"exception_box">>]

generate_text_with_exception_handling(o) ==
    IF o.ok
    THEN [raised |-> FALSE, value |-> Some(o.text),
          progress |-> <<50, 70, 90>>, shown |-> <<>>]
    ELSE [raised |-> FALSE, value |-> None,
          progress |-> <<50>> \o StageProgress(o.stage), shown |-> <<"exception_box">>]

(* line 54, @retry(..., stop=stop_after_attempt(6)): what tenacity does     *)
(* with the outcome b of attempt n of the body                              *)

\* retrying on a None result as well, with no stop condition
RetryOnNoneNoStop(b, n) ==
    IF ~b.raised /\ b.value.some THEN "return" ELSE "retry"

RetryDecision(b, n) ==
    IF ~b.raised THEN "return"
    ELSE IF n >= StopAfterAttempt THEN "retry_error"
    ELSE "retry"

----------------------------------------------------------------------------
(* The submission: one click on the button in main *)

Init ==
    /\ pc = "Idle"
    /\ request = DefaultForm
    /\ prompt = <<>>
    /\ hasKey \in BOOLEAN
    /\ failFirst \in 0..MaxFailures
    /\ attempt_number = 0
    /\ calls = 0
    /\ lastCall = "none"
    /\ progress = <<>>
    /\ shown = <<>>
    /\ progress_bar = "empty"
    /\ generated_post = None

(* main, lines 143-154 and generate_facebook_post, lines 25-47: the click   *)
(* with the form holding r, up to the entry into the retry wrapper          *)
Submit ==
    /\ pc = "Idle"
    /\ \E r \in Requests(FormChars, MaxFormLen, MaxFormLen) :
        /\ request' = r
        /\ IF ~InputsValid(r)
           THEN /\ shown' = shown \o <<"validation_error">>
                /\ pc' = "Rejected"
                /\ progress_bar' = "empty"
                /\ UNCHANGED <<prompt, attempt_number, progress>>
           ELSE /\ progress' = progress \o <<10, 30>>
                /\ prompt' = BuildPrompt(r)
                /\ attempt_number' = 1
                /\ pc' = "Sending"
                /\ progress_bar' = "bar"
                /\ UNCHANGED shown
    /\ UNCHANGED <<hasKey, failFirst, calls, lastCall, generated_post>>

(* One iteration of tenacity's loop around the body (lines 54-93), and,     *)
(* when the loop ends, the rest of generate_facebook_post (lines 47-52):    *)
(* progress_callback(100) and return on a returned value, st.error and      *)
(* return None on a raised RetryError.                                      *)
Attempt ==
    /\ pc = "Sending"
    /\ attempt_number <= MaxAttemptNumber
    /\ \E o \in RemoteCall(calls + 1) :
        LET b == generate_text_with_exception_handling(o)
            d == RetryDecision(b, attempt_number)
        IN  /\ calls' = calls + 1
            /\ lastCall' = IF o.ok THEN "ok" ELSE "raised"
            /\ progress' = progress \o b.progress
                             \o (IF d = "return" THEN <<100>> ELSE <<>>)
            /\ shown' = shown \o b.shown
                          \o (IF d = "retry_error" THEN <<"generation_error">> ELSE <<>>)
            /\ pc' = IF d = "retry" THEN "Sending" ELSE "Returned"
            /\ attempt_number' = IF d = "retry" THEN attempt_number + 1 ELSE attempt_number
            /\ generated_post' = IF d = "return" THEN b.value ELSE None
    /\ UNCHANGED <<request, prompt, hasKey, failFirst, progress_bar>>

(* main, lines 155-162: show the text or the failure message *)
Finish ==
    /\ pc = "Returned"
    /\ shown' = shown \o ShownAfter(generated_post)
    /\ pc' = IF Truthy(generated_post) THEN "Done" ELSE "Failed"
    /\ progress_bar' = "empty"
    /\ UNCHANGED <<request, prompt, hasKey, failFirst, attempt_number, calls,
                   lastCall, progress, generated_post>>

Next == Submit \/ Attempt \/ Finish

Spec == Init /\ [][Next]_vars

\* the handler runs synchronously to its end: every started step is taken
FairSpec == Spec /\ WF_vars(Attempt) /\ WF_vars(Finish)

----------------------------------------------------------------------------
(* The prompt builder on its own: generate_facebook_post, lines 26-47 *)

PromptInit ==
    /\ pc = "PromptInput"
    /\ request \in Requests(Chars, MaxLen, MaxOptLen)
    /\ prompt = <<>>
    /\ hasKey = TRUE
    /\ failFirst = 0
    /\ attempt_number = 0
    /\ calls = 0
    /\ lastCall = "none"
    /\ progress = <<>>
    /\ shown = <<>>
    /\ progress_bar = "empty"
    /\ generated_post = None

BuildPromptStep ==
    /\ pc = "PromptInput"
    /\ prompt' = BuildPrompt(request)
    /\ progress' = progress \o <<10, 30>>
    /\ pc' = "PromptBuilt"
    /\ UNCHANGED <<request, hasKey, failFirst, attempt_number, calls, lastCall,
                   shown, progress_bar, generated_post>>

PromptNext == BuildPromptStep

PromptSpec == PromptInit /\ [][PromptNext]_vars

----------------------------------------------------------------------------
(* Properties *)

Terminal == {"Rejected", "Done", "Failed"}
AfterCall == {"Returned", "Done", "Failed"}
TextShown == "generated_text" \in Range(shown)
ErrorShown ==
    Range(shown) \cap {"validation_error", "exception_box", "generation_error",
                       "failure_message"} # {}
\* the remote call raises on every invocation the retry policy could make
AlwaysFails == failFirst >= StopAfterAttempt

\* C1: when the remote call raises on its first k < 6 invocations and then
\* succeeds, generate_facebook_post returns the generated text and the remote
\* call has been attempted exactly k + 1 times.
C1_RetryUntilSuccess ==
    (pc \in AfterCall /\ hasKey /\ failFirst < StopAfterAttempt)
        => (generated_post.some /\ lastCall = "ok" /\ calls = failFirst + 1)

\* C2: when the remote call raises on every invocation, failure is reported
\* only after the 6th attempt, and a 7th attempt is never made.
C2_SixAttemptsThenFailure ==
    /\ calls <= StopAfterAttempt
    /\ (pc \in AfterCall /\ AlwaysFails) => calls = StopAfterAttempt

\* C3: a submission whose business_type or target_audience is empty is rejected
\* with the validation error and without any prompt, progress or remote call;
\* a remote call is made only with both fields non-empty.
C3_ValidationBeforeCall ==
    /\ (pc # "Idle" /\ (request.business_type = <<>> \/ request.target_audience = <<>>))
          => /\ pc = "Rejected"
             /\ calls = 0
             /\ attempt_number = 0
             /\ prompt = <<>>
             /\ progress = <<>>
             /\ shown = <<"validation_error">>
    /\ (calls > 0 \/ pc = "Sending")
          => (request.business_type # <<>> /\ request.target_audience # <<>>)

C3_Witness ==
    /\ pc = "Rejected"
    /\ request.business_type # <<>>
    /\ request.target_audience = <<>>

\* C4: when the remote call has failed on every attempt made, generate_facebook_post
\* hands None to main (nothing propagates: main goes on to its else branch and
\* never to the text branch).
C4_FailureIsNone ==
    (pc \in AfterCall /\ lastCall = "raised")
        => (generated_post = None /\ pc # "Done" /\ ~TextShown)

C4_Witness ==
    /\ pc = "Failed"
    /\ lastCall = "raised"
    /\ hasKey
    /\ failFirst >= StopAfterAttempt
    /\ generated_post = None

\* C5 as stated: at the end of a submission the generated text is shown if and
\* only if the remote call succeeded; otherwise an error message is shown; never
\* neither, never the text together with the failure message.
C5_TextIffCallSucceeded ==
    pc \in Terminal
        => /\ TextShown <=> lastCall = "ok"
           /\ ~TextShown => ErrorShown
           /\ ~(TextShown /\ "failure_message" \in Range(shown))

\* C5 as amended: the generated text is shown if and only if the remote call
\* succeeded with a non-empty text; otherwise an error message is shown; never
\* neither, never the text together with the failure message.
C5_TextIffNonEmptyResult ==
    pc \in Terminal
        => /\ TextShown <=> (lastCall = "ok" /\ generated_post.some
                                /\ generated_post.text # <<>>)
           /\ ~TextShown => ErrorShown
           /\ ~(TextShown /\ "failure_message" \in Range(shown))

C5_Witness ==
    /\ pc = "Failed"
    /\ lastCall = "ok"
    /\ generated_post = Some(<<>>)
    /\ "failure_message" \in Range(shown)

\* C6: with GEMINI_API_KEY absent, a valid submission never shows a generated
\* text: it ends in Failed with the failure message on the page, as for any
\* other failed call, and main runs to its end (the progress widget is emptied).
C6_MissingKeyFails ==
    (~hasKey /\ pc \in AfterCall)
        => /\ ~TextShown
           /\ pc \in Terminal
                => /\ pc = "Failed"
                   /\ "failure_message" \in Range(shown)
                   /\ progress_bar = "empty"

\* C7: every valid submission (Sending) eventually ends in Done or Failed; no
\* step leaves Done or Failed; the attempt counter only grows by one, and a step
\* from Sending(N) to Sending(N+1) happens only after attempt N failed with N < 6.
C7_Step ==
    /\ pc \in {"Done", "Failed"} => UNCHANGED vars
    /\ attempt_number' # attempt_number => attempt_number' = attempt_number + 1
    /\ (pc = "Sending" /\ pc' = "Sending")
          => /\ attempt_number' = attempt_number + 1
             /\ attempt_number < StopAfterAttempt
             /\ lastCall' = "raised"
    /\ (pc' = "Done" /\ pc # "Done") => (generated_post.some /\ lastCall = "ok")

C7_Lifecycle ==
    /\ (pc = "Sending") ~> (pc \in {"Done", "Failed"})
    /\ [][C7_Step]_vars

C7_Witness ==
    /\ pc = "Done"
    /\ calls = 1
    /\ attempt_number = 1
    /\ TextShown

\* C9: the prompt built from a request contains each of the six field values as
\* a contiguous run of its tokens, unchanged.
C9_PromptContainsFields ==
    pc = "PromptBuilt"
        => /\ IsSubstring(request.business_type, prompt)
           /\ IsSubstring(request.target_audience, prompt)
           /\ IsSubstring(request.post_goal, prompt)
           /\ IsSubstring(request.post_tone, prompt)
           /\ IsSubstring(request.include, prompt)
           /\ IsSubstring(request.avoid, prompt)

C9_Witness ==
    /\ pc = "PromptBuilt"
    /\ request.business_type = <<"a", "{">>
    /\ request.target_audience = <<"a">>
    /\ request.include = <<"a">>
    /\ request.avoid = <<"{">>

\* C10: the values given to progress_callback never decrease, and 100 is
\* reported only once a generated text has been returned, never in a submission
\* that ends in Failed.
C10_ProgressMonotoneAndFinal ==
    /\ NonDecreasing(progress)
    /\ 100 \in Range(progress) => (generated_post.some /\ lastCall = "ok")
    /\ pc = "Failed" => 100 \notin Range(progress)

====
